---- MODULE Spec2Model ----
(***************************************************************************)
(* A model of the supervisor / observation-task matching program:          *)
(*   parse_course_time.py  TimeParser (schedule strings -> slots) and      *)
(*                         TimeMatrix (conflict and proximity matrices),   *)
(*   matching.py           matching_task (the 0/1 programme and its result)*)
(*                                                                         *)
(* A Python str is a sequence of one-character strings.  The literals of   *)
(* the source are written in ASCII:                                        *)
(*   "P" is the period prefix  (U+7B2C), "J" the period suffix (U+8282),   *)
(*   "W" the week suffix (U+5468); "Mon" .. "Sun" are the seven weekday    *)
(*   names of parse_day, each one token because no code looks inside it.   *)
(***************************************************************************)
EXTENDS Integers, Sequences, FiniteSets, TLC

VARIABLES
    pc,                            \* position in the running function
    supervisor_course_data,        \* rows: [campus, isstr, text]
    task_data,                     \* rows: [campus, isstr, text]
    all_schedule_list_supervisor,  \* index -> list of slots
    all_schedule_list_task,        \* index -> list of slots
    conflict_matrix,               \* <<i, j>> -> BOOLEAN
    proximity_matrix,              \* <<i, j>> -> Int
    solver,                        \* "none" | "created" | "unavailable"
    x,                             \* the BoolVars created, a set of <<i, j>>
    constraints,                   \* the constraints added with solver.Add
    objective,                     \* <<i, j>> -> coefficient handed to Maximize
    solve_calls,                   \* number of solver.Solve() calls
    status,                        \* "unsolved" | "OPTIMAL" | "FEASIBLE" | "INFEASIBLE"
    solution,                      \* <<i, j>> -> solution_value
    assignment,                    \* the list of (i, j) pairs
    result,                        \* what the function returned
    printed,                       \* the messages printed
    exception,                     \* the exception that left the function
    cells_done,                    \* cells build_conflict_matrix has been through
    worker_pc,                     \* <<i, j>> -> position of the worker of that cell
    writers                        \* <<i, j>> -> the workers that wrote the cell

vars == <<pc, supervisor_course_data, task_data, all_schedule_list_supervisor,
          all_schedule_list_task, conflict_matrix, proximity_matrix, solver, x,
          constraints, objective, solve_calls, status, solution, assignment,
          result, printed, exception, cells_done, worker_pc, writers>>

(***************************************************************************)
(* Bounds of the model.                                                    *)
(***************************************************************************)
MaxSupervisors == 2
MaxTasks == 3
MaxSlots == 2
MaxGroups == 2
MaxPeriod == 13

(***************************************************************************)
(* Python helpers.                                                         *)
(***************************************************************************)
Digits == {"0", "1", "2", "3", "4", "5", "6", "7", "8", "9"}

DigitVal(c) ==
    CASE c = "0" -> 0 [] c = "1" -> 1 [] c = "2" -> 2 [] c = "3" -> 3
      [] c = "4" -> 4 [] c = "5" -> 5 [] c = "6" -> 6 [] c = "7" -> 7
      [] c = "8" -> 8 [] c = "9" -> 9

RECURSIVE Flatten(_)
Flatten(ss) == IF ss = <<>> THEN <<>> ELSE Head(ss) \o Flatten(Tail(ss))

\* str.replace(ch, ''): every occurrence of the character removed
RECURSIVE Remove(_, _)
Remove(s, ch) ==
    IF s = <<>> THEN <<>>
    ELSE IF Head(s) = ch THEN Remove(Tail(s), ch)
    ELSE <<Head(s)>> \o Remove(Tail(s), ch)

\* str.split(sep): the parts between separators, empty parts kept
RECURSIVE SplitFrom(_, _, _)
SplitFrom(s, sep, cur) ==
    IF s = <<>> THEN <<cur>>
    ELSE IF Head(s) = sep THEN <<cur>> \o SplitFrom(Tail(s), sep, <<>>)
    ELSE SplitFrom(Tail(s), sep, Append(cur, Head(s)))

Split(s, sep) == SplitFrom(s, sep, <<>>)

Contains(s, ch) == \E k \in 1..Len(s) : s[k] = ch

\* int(s): the value of a non-empty run of decimal digits, ValueError otherwise
IsInt(s) == s # <<>> /\ \A k \in 1..Len(s) : s[k] \in Digits

RECURSIVE IntOf(_)
IntOf(s) == IF s = <<>> THEN 0 ELSE 10 * IntOf(SubSeq(s, 1, Len(s) - 1)) + DigitVal(s[Len(s)])

\* range(a, b): the end of the range left out
RangeSetExclusive(a, b) == a..(b - 1)

\* range(a, b + 1) as a set
RangeSet(a, b) == a..b

ValueError == [kind |-> "ValueError"]
NoneValue == [kind |-> "None"]

(***************************************************************************)
(* TimeParser                                                              *)
(***************************************************************************)
\* one comma-separated item of a week or period spec: lines 43-47 / 69-73
ParsePart(part) ==
    IF Contains(part, "-")
    THEN LET se == Split(part, "-") IN
         IF Len(se) # 2 THEN ValueError
         ELSE IF ~IsInt(se[1]) \/ ~IsInt(se[2]) THEN ValueError
         ELSE [kind |-> "set", val |-> RangeSet(IntOf(se[1]), IntOf(se[2]))]
    ELSE IF ~IsInt(part) THEN ValueError
    ELSE [kind |-> "set", val |-> {IntOf(part)}]

\* the loop over parts: the first part that fails raises
RECURSIVE ParseParts(_, _)
ParseParts(parts, acc) ==
    IF parts = <<>> THEN [kind |-> "set", val |-> acc]
    ELSE LET r == ParsePart(Head(parts)) IN
         IF r.kind = "ValueError" THEN ValueError
         ELSE ParseParts(Tail(parts), acc \cup r.val)

parse_weeks(week_str) == ParseParts(Split(Remove(week_str, "W"), ","), {})

parse_periods(period_str) ==
    ParseParts(Split(Remove(Remove(period_str, "P"), "J"), ","), {})

parse_day(day_str) ==
    CASE day_str = <<"Mon">> -> 1
      [] day_str = <<"Tue">> -> 2
      [] day_str = <<"Wed">> -> 3
      [] day_str = <<"Thu">> -> 4
      [] day_str = <<"Fri">> -> 5
      [] day_str = <<"Sat">> -> 6
      [] day_str = <<"Sun">> -> 7
      [] OTHER -> 0

\* the first "}" at or after q with no line break before it, 0 when there is none
RECURSIVE FirstClose(_, _)
FirstClose(s, q) ==
    IF q > Len(s) THEN 0
    ELSE IF s[q] = "}" THEN q
    ELSE IF s[q] = "\n" THEN 0
    ELSE FirstClose(s, q + 1)

\* re.findall(r'\{.*?\}', s) from position p
RECURSIVE FindBraceGroups(_, _)
FindBraceGroups(s, p) ==
    IF p > Len(s) THEN <<>>
    ELSE IF s[p] = "{" /\ FirstClose(s, p + 1) # 0
    THEN LET q == FirstClose(s, p + 1) IN
         <<SubSeq(s, p, q)>> \o FindBraceGroups(s, q + 1)
    ELSE FindBraceGroups(s, p + 1)

\* the end of a bracket field opened before q, 0 when the pattern does not match;
\* inner is TRUE inside a nested [...] (one level is all the pattern allows)
RECURSIVE FieldEnd(_, _, _)
FieldEnd(s, q, inner) ==
    IF q > Len(s) THEN 0
    ELSE IF s[q] = "]" THEN (IF inner THEN FieldEnd(s, q + 1, FALSE) ELSE q)
    ELSE IF s[q] = "[" THEN (IF inner THEN 0 ELSE FieldEnd(s, q + 1, TRUE))
    ELSE FieldEnd(s, q + 1, inner)

\* re.findall(pattern, entry_str) of parse_class_entry from position p
RECURSIVE FindFields(_, _)
FindFields(s, p) ==
    IF p > Len(s) THEN <<>>
    ELSE IF s[p] = "[" /\ FieldEnd(s, p + 1, FALSE) # 0
    THEN LET e == FieldEnd(s, p + 1, FALSE) IN
         <<SubSeq(s, p + 1, e - 1)>> \o FindFields(s, e + 1)
    ELSE FindFields(s, p + 1)

\* the field count below which an entry is dropped
MinFields == 5

\* the comparison of line 136 off by one
EntryTooShortOrEqual(matches) == Len(matches) <= MinFields

EntryTooShort(matches) == Len(matches) < MinFields

parse_class_entry(entry_str) ==
    LET matches == FindFields(entry_str, 1) IN
    IF EntryTooShort(matches) THEN NoneValue
    ELSE LET periods == parse_periods(matches[3])
             weeks == parse_weeks(matches[4])
         IN  IF periods.kind = "ValueError" \/ weeks.kind = "ValueError"
             THEN ValueError
             ELSE [kind |-> "slot",
                   slot |-> [teacher |-> matches[1],
                             day |-> parse_day(matches[2]),
                             periods |-> periods.val,
                             weeks |-> weeks.val,
                             location |-> matches[5]]]

\* extract_course_time for one cell of the column
extract_course_time(course_time) ==
    IF course_time.isstr THEN FindBraceGroups(course_time.text, 1) ELSE <<>>

\* the inner loop of parse_schedules over one entity's entries
RECURSIVE ParseEntries(_, _)
ParseEntries(schedule, schedule_list) ==
    IF schedule = <<>> THEN [kind |-> "list", val |-> schedule_list]
    ELSE LET parsed_entry == parse_class_entry(Head(schedule)) IN
         IF parsed_entry.kind = "ValueError" THEN ValueError
         ELSE IF parsed_entry.kind = "None" THEN ParseEntries(Tail(schedule), schedule_list)
         ELSE ParseEntries(Tail(schedule), Append(schedule_list, parsed_entry.slot))

\* parse_schedules over the column: index -> schedule_list, or the ValueError
RECURSIVE ParseRows(_, _)
ParseRows(course_times, acc) ==
    IF course_times = <<>> THEN [kind |-> "dict", val |-> acc]
    ELSE LET r == ParseEntries(extract_course_time(Head(course_times)), <<>>) IN
         IF r.kind = "ValueError" THEN ValueError
         ELSE ParseRows(Tail(course_times), Append(acc, r.val))

parse_schedules(course_times) == ParseRows(course_times, <<>>)

(***************************************************************************)
(* TimeMatrix                                                              *)
(***************************************************************************)
weeks_overlap(weeks1, weeks2) == weeks1 \cap weeks2 # {}

periods_overlap(periods1, periods2) == periods1 \cap periods2 # {}

\* overlap taken for a conflict: the containment test left out
ContainedAlways(class_task, class_sup) == TRUE

\* the innermost test of schedules_conflict, line 256
Contained(class_task, class_sup) ==
    /\ class_task.weeks \subseteq class_sup.weeks
    /\ class_task.periods \subseteq class_sup.periods

\* the nested tests of lines 253-256 for one task slot and one supervisor slot
SlotsConflict(class_task, class_sup) ==
    /\ class_task.day = class_sup.day
    /\ weeks_overlap(class_task.weeks, class_sup.weeks)
    /\ periods_overlap(class_task.periods, class_sup.periods)
    /\ Contained(class_task, class_sup)

\* schedule1 is the supervisor's list, schedule2 the task's
schedules_conflict(schedule1, schedule2) ==
    \E a \in 1..Len(schedule2) : \E b \in 1..Len(schedule1) :
        SlotsConflict(schedule2[a], schedule1[b])

Abs(n) == IF n < 0 THEN -n ELSE n

MinOf(S) == CHOOSE m \in S : \A y \in S : m <= y

\* the distance beyond which a slot adds nothing
ProximityCap == 10

\* the value written for a conflicting pair
ConflictPenalty == 100

\* lines 280-283: the periods the supervisor occupies on task_day
SupervisorPeriods(supervisor_schedules, task_day) ==
    UNION {supervisor_schedules[b].periods :
             b \in {c \in 1..Len(supervisor_schedules) : supervisor_schedules[c].day = task_day}}

\* the distance itself taken for the score
SlotScoreDistance(min_diff) == IF min_diff < ProximityCap THEN min_diff ELSE 0

\* the cap at distance 10 left out
SlotScoreUncapped(min_diff) == ProximityCap - min_diff

\* line 286: what one task slot adds, given min_diff
SlotScore(min_diff) == IF min_diff < ProximityCap THEN ProximityCap - min_diff ELSE 0

\* only the supervisor slots whose weeks overlap the task slot's are counted
RECURSIVE ProximityFromSameWeeks(_, _, _, _)
ProximityFromSameWeeks(supervisor_schedules, task_schedules, a, proximity) ==
    IF a > Len(task_schedules) THEN [kind |-> "int", val |-> proximity]
    ELSE LET task_class == task_schedules[a]
             supervisor_periods ==
                 UNION {supervisor_schedules[b].periods :
                          b \in {c \in 1..Len(supervisor_schedules) :
                                   /\ supervisor_schedules[c].day = task_class.day
                                   /\ weeks_overlap(supervisor_schedules[c].weeks,
                                                    task_class.weeks)}}
         IN  IF supervisor_periods = {}
             THEN ProximityFromSameWeeks(supervisor_schedules, task_schedules, a + 1, proximity)
             ELSE IF task_class.periods = {} THEN ValueError
             ELSE LET min_diff == MinOf({Abs(p - t) : p \in supervisor_periods,
                                                       t \in task_class.periods})
                  IN  ProximityFromSameWeeks(supervisor_schedules, task_schedules, a + 1,
                                             proximity + SlotScore(min_diff))

\* lines 277-286 for the task slots from index a on; min() of an empty list
\* raises ValueError
RECURSIVE ProximityFrom(_, _, _, _)
ProximityFrom(supervisor_schedules, task_schedules, a, proximity) ==
    IF a > Len(task_schedules) THEN [kind |-> "int", val |-> proximity]
    ELSE LET task_class == task_schedules[a]
             supervisor_periods == SupervisorPeriods(supervisor_schedules, task_class.day)
         IN  IF supervisor_periods = {}
             THEN ProximityFrom(supervisor_schedules, task_schedules, a + 1, proximity)
             ELSE IF task_class.periods = {} THEN ValueError
             ELSE LET min_diff == MinOf({Abs(p - t) : p \in supervisor_periods,
                                                       t \in task_class.periods})
                  IN  ProximityFrom(supervisor_schedules, task_schedules, a + 1,
                                    proximity + SlotScore(min_diff))

calculate_time_proximity(supervisor_schedules, task_schedules) ==
    ProximityFrom(supervisor_schedules, task_schedules, 1, 0)

\* the cells of a matrix with the given shape, 0-based as in the source
Cells(num_supervisors, num_tasks) == (0..(num_supervisors - 1)) \X (0..(num_tasks - 1))

\* lines 310-314 for one cell
BuildCell(sup_list, task_list, i, j) ==
    LET c == schedules_conflict(sup_list[i + 1], task_list[j + 1]) IN
    IF c THEN [kind |-> "cell", conflict |-> TRUE, proximity |-> ConflictPenalty]
    ELSE LET r == calculate_time_proximity(sup_list[i + 1], task_list[j + 1]) IN
         IF r.kind = "ValueError" THEN ValueError
         ELSE [kind |-> "cell", conflict |-> FALSE, proximity |-> r.val]

\* the cells of an R x T matrix in the order of the two nested loops
RowMajor(R, T) == [k \in 1..(R * T) |-> <<(k - 1) \div T, (k - 1) % T>>]

\* the number of cells the loops complete before a cell raises
CellsBeforeError(sup_list, task_list) ==
    LET order == RowMajor(Len(sup_list), Len(task_list))
        bad == {k \in 1..Len(order) :
                  BuildCell(sup_list, task_list, order[k][1], order[k][2]).kind = "ValueError"}
    IN  MinOf(bad) - 1

\* the two matrices, or the ValueError of the first cell that raises
build_conflict_matrix(sup_list, task_list) ==
    LET cells == Cells(Len(sup_list), Len(task_list)) IN
    IF \E ij \in cells : BuildCell(sup_list, task_list, ij[1], ij[2]).kind = "ValueError"
    THEN ValueError
    ELSE [kind |-> "matrices",
          conflict |-> [ij \in cells |-> BuildCell(sup_list, task_list, ij[1], ij[2]).conflict],
          proximity |-> [ij \in cells |-> BuildCell(sup_list, task_list, ij[1], ij[2]).proximity]]

(***************************************************************************)
(* The inputs of the model                                                 *)
(***************************************************************************)
\* "{[teacher],[day],[periods],[weeks],[location]}"
Entry(teacher, day, period_str, week_str, location) ==
    <<"{", "[">> \o teacher \o <<"]", ",", "[", day, "]", ",", "[">> \o period_str
      \o <<"]", ",", "[">> \o week_str \o <<"]", ",", "[">> \o location \o <<"]", "}">>

Row(campus, text) == [campus |-> campus, isstr |-> TRUE, text |-> text]

\* a supervisor teaching on two campuses, Monday periods 1-2 of weeks 1-2
SupBusy == Row(<<"c", ",", "a">>,
               Entry(<<"T">>, "Mon", <<"P", "0", "1", ",", "0", "2", "J">>,
                     <<"1", "-", "2", "W">>, <<"L">>))

\* a supervisor of campus b without a class
SupFree == Row(<<"b">>, <<"{", "}">>)

\* inside SupBusy's Monday block
TaskIn == Row(<<"a">>, Entry(<<"U">>, "Mon", <<"P", "0", "2", "J">>, <<"1", "W">>, <<"L">>))

\* on SupBusy's Monday, nine periods away
TaskNear == Row(<<"b">>, Entry(<<"U">>, "Mon", <<"P", "1", "1", "J">>, <<"1", "W">>, <<"L">>))

\* on a day no supervisor teaches
TaskOther == Row(<<"a">>, Entry(<<"U">>, "Tue", <<"P", "0", "2", "J">>, <<"1", "W">>, <<"L">>))

\* a period spec without a number: int('') raises
TaskBad == Row(<<"a">>, Entry(<<"U">>, "Mon", <<"P", "J">>, <<"1", "W">>, <<"L">>))

\* a descending range: range(5, 4) is empty
TaskEmptyRange == Row(<<"a">>, Entry(<<"U">>, "Mon", <<"P", "5", "-", "3", "J">>,
                                     <<"1", "W">>, <<"L">>))

SupervisorRows == {SupBusy, SupFree}
TaskRows == {TaskIn, TaskNear, TaskOther}

SeqsUpTo(S, n) == UNION {[1..k -> S] : k \in 0..n}

MatchingInputs ==
    {<<s, t>> : s \in SeqsUpTo(SupervisorRows, MaxSupervisors),
                t \in SeqsUpTo(TaskRows, MaxTasks)}
    \cup {<<(<<SupBusy>>), (<<TaskBad>>)>>, <<(<<SupBusy>>), (<<TaskEmptyRange>>)>>}

Pending == [kind |-> "pending"]

\* the state of every variable before the function runs
Fresh ==
    /\ conflict_matrix = <<>>
    /\ proximity_matrix = <<>>
    /\ solver = "none"
    /\ x = {}
    /\ constraints = <<>>
    /\ objective = <<>>
    /\ solve_calls = 0
    /\ status = "unsolved"
    /\ solution = <<>>
    /\ assignment = <<>>
    /\ result = Pending
    /\ printed = <<>>
    /\ exception = "none"
    /\ cells_done = 0
    /\ worker_pc = <<>>
    /\ writers = <<>>

Init ==
    /\ pc = "start"
    /\ \E in \in MatchingInputs :
          /\ supervisor_course_data = in[1]
          /\ task_data = in[2]
    /\ all_schedule_list_supervisor = <<>>
    /\ all_schedule_list_task = <<>>
    /\ Fresh

(***************************************************************************)
(* matching_task                                                           *)
(***************************************************************************)
num_supervisors == Len(supervisor_course_data)
num_tasks == Len(task_data)

\* lines 14-23: both columns are parsed; a ValueError of int() leaves the function
ParseSchedules ==
    /\ pc = "start"
    /\ LET sup == parse_schedules(supervisor_course_data)
           task == parse_schedules(task_data)
       IN  IF sup.kind = "ValueError" \/ task.kind = "ValueError"
           THEN /\ pc' = "raised"
                /\ exception' = "ValueError"
                /\ UNCHANGED <<all_schedule_list_supervisor, all_schedule_list_task>>
           ELSE /\ pc' = "create_solver"
                /\ all_schedule_list_supervisor' = sup.val
                /\ all_schedule_list_task' = task.val
                /\ UNCHANGED exception
    /\ UNCHANGED <<worker_pc, writers, cells_done, supervisor_course_data, task_data, conflict_matrix, proximity_matrix,
                   solver, x, constraints, objective, solve_calls, status, solution,
                   assignment, result, printed>>

\* what the function returns when CreateSolver gives no solver: a bare return
UnavailableReturn == NoneValue

\* line 26, the backend is there
CreateSolverOk ==
    /\ pc = "create_solver"
    /\ solver' = "created"
    /\ pc' = "make_vars"
    /\ UNCHANGED <<worker_pc, writers, cells_done, supervisor_course_data, task_data, all_schedule_list_supervisor,
                   all_schedule_list_task, conflict_matrix, proximity_matrix, x,
                   constraints, objective, solve_calls, status, solution, assignment,
                   result, printed, exception>>

\* lines 26-29, the backend is not there
CreateSolverFails ==
    /\ pc = "create_solver"
    /\ solver' = "unavailable"
    /\ printed' = Append(printed, [msg |-> "no solver"])
    /\ result' = UnavailableReturn
    /\ pc' = "done"
    /\ UNCHANGED <<worker_pc, writers, cells_done, supervisor_course_data, task_data, all_schedule_list_supervisor,
                   all_schedule_list_task, conflict_matrix, proximity_matrix, x,
                   constraints, objective, solve_calls, status, solution, assignment,
                   exception>>

\* lines 32-35
CreateVariables ==
    /\ pc = "make_vars"
    /\ x' = Cells(num_supervisors, num_tasks)
    /\ pc' = "coverage"
    /\ UNCHANGED <<worker_pc, writers, cells_done, supervisor_course_data, task_data, all_schedule_list_supervisor,
                   all_schedule_list_task, conflict_matrix, proximity_matrix, solver,
                   constraints, objective, solve_calls, status, solution, assignment,
                   result, printed, exception>>

\* a constraint  Sum of the variables in terms == rhs
SumEq(terms, rhs) == [terms |-> terms, rhs |-> rhs]

\* an index slip: every coverage constraint written for task 0
CoverageConstraintFirstTask(j) == SumEq({<<i, 0>> : i \in 0..(num_supervisors - 1)}, 1)

\* line 39 for task j
CoverageConstraint(j) == SumEq({<<i, j>> : i \in 0..(num_supervisors - 1)}, 1)

\* lines 37-39
AddCoverage ==
    /\ pc = "coverage"
    /\ constraints' = constraints \o [k \in 1..num_tasks |-> CoverageConstraint(k - 1)]
    /\ pc' = "balance"
    /\ UNCHANGED <<worker_pc, writers, cells_done, supervisor_course_data, task_data, all_schedule_list_supervisor,
                   all_schedule_list_task, conflict_matrix, proximity_matrix, solver, x,
                   objective, solve_calls, status, solution, assignment, result,
                   printed, exception>>

\* the extra tasks handed to the last supervisors instead of the first
QuotaExtraToLast(i, tasks_per_supervisor, extra_tasks) ==
    IF i >= num_supervisors - extra_tasks THEN tasks_per_supervisor + 1
    ELSE tasks_per_supervisor

\* the comparison of line 46 off by one
QuotaInclusive(i, tasks_per_supervisor, extra_tasks) ==
    IF i <= extra_tasks THEN tasks_per_supervisor + 1 ELSE tasks_per_supervisor

\* lines 46-51: the number of tasks supervisor i must get
Quota(i, tasks_per_supervisor, extra_tasks) ==
    IF i < extra_tasks THEN tasks_per_supervisor + 1 ELSE tasks_per_supervisor

BalanceConstraint(i, tasks_per_supervisor, extra_tasks) ==
    SumEq({<<i, j>> : j \in 0..(num_tasks - 1)}, Quota(i, tasks_per_supervisor, extra_tasks))

\* lines 41-51; num_tasks // 0 raises ZeroDivisionError
AddBalance ==
    /\ pc = "balance"
    /\ IF num_supervisors = 0
       THEN /\ pc' = "raised"
            /\ exception' = "ZeroDivisionError"
            /\ UNCHANGED constraints
       ELSE LET tasks_per_supervisor == num_tasks \div num_supervisors
                extra_tasks == num_tasks % num_supervisors
            IN  /\ constraints' = constraints \o
                      [k \in 1..num_supervisors |->
                          BalanceConstraint(k - 1, tasks_per_supervisor, extra_tasks)]
                /\ pc' = "conflicts"
                /\ UNCHANGED exception
    /\ UNCHANGED <<worker_pc, writers, cells_done, supervisor_course_data, task_data, all_schedule_list_supervisor,
                   all_schedule_list_task, conflict_matrix, proximity_matrix, solver, x,
                   objective, solve_calls, status, solution, assignment, result, printed>>

\* the test of line 57 negated
ConflictConstraintsNegated(conflict) ==
    LET hit == SelectSeq(RowMajor(num_supervisors, num_tasks), LAMBDA ij : ~conflict[ij]) IN
    [k \in 1..Len(hit) |-> SumEq({hit[k]}, 0)]

\* the loop of lines 55-58 left out
ConflictConstraintsNone(conflict) == <<>>

\* lines 55-58: x[i, j] == 0 for every conflicting cell
ConflictConstraints(conflict) ==
    LET hit == SelectSeq(RowMajor(num_supervisors, num_tasks), LAMBDA ij : conflict[ij]) IN
    [k \in 1..Len(hit) |-> SumEq({hit[k]}, 0)]

\* lines 53-58; build_conflict_matrix may raise the ValueError of min([])
AddConflicts ==
    /\ pc = "conflicts"
    /\ LET m == build_conflict_matrix(all_schedule_list_supervisor, all_schedule_list_task) IN
       IF m.kind = "ValueError"
       THEN /\ pc' = "raised"
            /\ exception' = "ValueError"
            /\ cells_done' = CellsBeforeError(all_schedule_list_supervisor,
                                              all_schedule_list_task)
            /\ UNCHANGED <<conflict_matrix, proximity_matrix, constraints>>
       ELSE /\ conflict_matrix' = m.conflict
            /\ proximity_matrix' = m.proximity
            /\ cells_done' = num_supervisors * num_tasks
            /\ constraints' = constraints \o ConflictConstraints(m.conflict)
            /\ pc' = "objective"
            /\ UNCHANGED exception
    /\ UNCHANGED <<worker_pc, writers, supervisor_course_data, task_data, all_schedule_list_supervisor,
                   all_schedule_list_task, solver, x, objective, solve_calls, status,
                   solution, assignment, result, printed>>

\* the campus column compared without the split
campus_match_unsplit(i, j) ==
    IF supervisor_course_data[i + 1].campus = task_data[j + 1].campus THEN 1 ELSE 0

\* lines 64-66
campus_match(i, j) ==
    LET supervisor_campuses == Split(supervisor_course_data[i + 1].campus, ",")
        task_campus == task_data[j + 1].campus
    IN  IF \E k \in 1..Len(supervisor_campuses) : supervisor_campuses[k] = task_campus
        THEN 1 ELSE 0

\* the campus term of the objective left out
CoefficientProximityOnly(i, j) == proximity_matrix[<<i, j>>]

\* line 75: the coefficient of x[i, j]
Coefficient(i, j) == campus_match(i, j) + proximity_matrix[<<i, j>>]

\* lines 60-75
SetObjective ==
    /\ pc = "objective"
    /\ objective' = [ij \in x |-> Coefficient(ij[1], ij[2])]
    /\ pc' = "solve"
    /\ UNCHANGED <<worker_pc, writers, cells_done, supervisor_course_data, task_data, all_schedule_list_supervisor,
                   all_schedule_list_task, conflict_matrix, proximity_matrix, solver, x,
                   constraints, solve_calls, status, solution, assignment, result,
                   printed, exception>>

(***************************************************************************)
(* The 0/1 solver behind pywraplp: what Solve() answers for the variables, *)
(* constraints and objective it was given.                                 *)
(***************************************************************************)
RECURSIVE SumOver(_, _)
SumOver(f, S) ==
    IF S = {} THEN 0
    ELSE LET k == CHOOSE k \in S : TRUE IN f[k] + SumOver(f, S \ {k})

Satisfies(v, c) == Cardinality({k \in c.terms : v[k] = 1}) = c.rhs

FeasibleSolutions ==
    {v \in [x -> {0, 1}] : \A n \in 1..Len(constraints) : Satisfies(v, constraints[n])}

ObjectiveValue(v) == SumOver([k \in x |-> objective[k] * v[k]], x)

OptimalSolutions ==
    LET feasible == FeasibleSolutions
        best == [v \in feasible |-> ObjectiveValue(v)]
    IN  {v \in feasible : \A w \in feasible : best[w] <= best[v]}

\* lines 77-78: the search runs to its end
Solve ==
    /\ pc = "solve"
    /\ solve_calls' = solve_calls + 1
    /\ LET optimal == OptimalSolutions IN
       IF optimal = {}
       THEN /\ status' = "INFEASIBLE"
            /\ UNCHANGED solution
       ELSE /\ status' = "OPTIMAL"
            /\ solution' \in optimal
    /\ pc' = "report"
    /\ UNCHANGED <<worker_pc, writers, cells_done, supervisor_course_data, task_data, all_schedule_list_supervisor,
                   all_schedule_list_task, conflict_matrix, proximity_matrix, solver, x,
                   constraints, objective, assignment, result, printed, exception>>

\* lines 77-78: the search is stopped with a solution not proven optimal
SolveStopsEarly ==
    /\ pc = "solve"
    /\ solve_calls' = solve_calls + 1
    /\ status' = "FEASIBLE"
    /\ solution' \in FeasibleSolutions
    /\ pc' = "report"
    /\ UNCHANGED <<worker_pc, writers, cells_done, supervisor_course_data, task_data, all_schedule_list_supervisor,
                   all_schedule_list_task, conflict_matrix, proximity_matrix, solver, x,
                   constraints, objective, assignment, result, printed, exception>>

\* the status values line 81 accepts
Accepted(st) == st = "OPTIMAL"

\* lines 83-87
Extract(sol) ==
    SelectSeq(RowMajor(num_supervisors, num_tasks), LAMBDA ij : ij \in x /\ sol[ij] = 1)

\* lines 93-97
CountLines(asg) ==
    [k \in 1..num_supervisors |->
        [msg |-> "count", supervisor |-> k - 1,
         count |-> Cardinality({n \in 1..Len(asg) : asg[n][1] = k - 1})]]

\* lines 80-122
ReturnResult ==
    /\ pc = "report"
    /\ IF Accepted(status)
       THEN /\ assignment' = Extract(solution)
            /\ printed' = (printed \o <<[msg |-> "optimal"]>>) \o CountLines(assignment')
            /\ result' = [kind |-> "output", assignment |-> assignment']
       ELSE /\ printed' = Append(printed, [msg |-> "no feasible solution"])
            /\ result' = NoneValue
            /\ UNCHANGED assignment
    /\ pc' = "done"
    /\ UNCHANGED <<worker_pc, writers, cells_done, supervisor_course_data, task_data, all_schedule_list_supervisor,
                   all_schedule_list_task, conflict_matrix, proximity_matrix, solver, x,
                   constraints, objective, solve_calls, status, solution, exception>>

Next ==
    \/ ParseSchedules
    \/ CreateSolverOk
    \/ CreateSolverFails
    \/ CreateVariables
    \/ AddCoverage
    \/ AddBalance
    \/ AddConflicts
    \/ SetObjective
    \/ Solve
    \/ ReturnResult

Spec == Init /\ [][Next]_vars

\* the same function with a backend that may stop before it proves optimality
NextAnyStatus == Next \/ SolveStopsEarly

SpecAnyStatus == Init /\ [][NextAnyStatus]_vars

(***************************************************************************)
(* Properties of matching_task                                             *)
(***************************************************************************)
Supervisors == 0..(num_supervisors - 1)
Tasks == 0..(num_tasks - 1)

\* the function returned an assignment
Returned == pc = "done" /\ result.kind = "output"

\* the tasks the returned list gives supervisor i
TasksOf(i) == {n \in 1..Len(result.assignment) : result.assignment[n][1] = i}

\* the entries of the returned list that name task j
EntriesFor(j) == {n \in 1..Len(result.assignment) : result.assignment[n][2] = j}

\* q + 1 for the first r supervisors, q for the others
ShareOf(i) ==
    IF i < num_tasks % num_supervisors
    THEN (num_tasks \div num_supervisors) + 1
    ELSE num_tasks \div num_supervisors

\* the total maps task -> supervisor that meet the quotas and avoid every conflict
ValidAssignments ==
    IF num_supervisors = 0 THEN {}
    ELSE {f \in [Tasks -> Supervisors] :
            /\ \A i \in Supervisors : Cardinality({j \in Tasks : f[j] = i}) = ShareOf(i)
            /\ \A j \in Tasks : ~conflict_matrix[<<f[j], j>>]}

\* 1 when the task's campus is one of the supervisor's campuses
CampusScore(i, j) ==
    LET campuses == Split(supervisor_course_data[i + 1].campus, ",") IN
    IF task_data[j + 1].campus \in {campuses[k] : k \in 1..Len(campuses)} THEN 1 ELSE 0

PairScore(i, j) == CampusScore(i, j) + proximity_matrix[<<i, j>>]

ValueOf(f) == SumOver([j \in Tasks |-> PairScore(f[j], j)], Tasks)

PairsOf(f) == {<<f[j], j>> : j \in Tasks}

ReturnedPairs == {result.assignment[n] : n \in 1..Len(result.assignment)}

\* C1: in a returned assignment every task index 0..T-1 is in exactly one
\* (supervisor, task) pair, and the status was OPTIMAL
C1_EveryTaskExactlyOnce ==
    Returned =>
        /\ status = "OPTIMAL"
        /\ \A j \in Tasks : Cardinality(EntriesFor(j)) = 1
        /\ \A n \in 1..Len(result.assignment) :
              result.assignment[n][1] \in Supervisors /\ result.assignment[n][2] \in Tasks

C1_Witness ==
    /\ Returned
    /\ num_supervisors = 2
    /\ num_tasks = 3
    /\ \A j \in Tasks : Cardinality(EntriesFor(j)) = 1

\* C2: in a returned assignment supervisor i holds q + 1 tasks when i < r and q
\* tasks otherwise (q = T div R, r = T mod R), so two counts differ by at most 1
C2_IndexOrderedQuotas ==
    Returned =>
        /\ \A i \in Supervisors : Cardinality(TasksOf(i)) = ShareOf(i)
        /\ \A i \in Supervisors : \A k \in Supervisors :
              Cardinality(TasksOf(i)) - Cardinality(TasksOf(k)) \in {-1, 0, 1}

C2_Witness ==
    /\ Returned
    /\ num_supervisors = 2
    /\ num_tasks = 3
    /\ Cardinality(TasksOf(0)) = 2
    /\ Cardinality(TasksOf(1)) = 1

\* C3: a returned assignment holds no pair whose conflict-matrix cell is true
C3_NoConflictingPair ==
    Returned => \A n \in 1..Len(result.assignment) : ~conflict_matrix[result.assignment[n]]

C3_Witness ==
    /\ Returned
    /\ \E ij \in DOMAIN conflict_matrix : conflict_matrix[ij]
    /\ \A n \in 1..Len(result.assignment) : ~conflict_matrix[result.assignment[n]]

\* C4: a returned assignment is a valid assignment whose sum of campus match plus
\* proximity is the largest among the valid ones, and a solution that is feasible
\* but not proven optimal is not returned
C4_ObjectiveMaximal ==
    /\ Returned =>
          \E f \in ValidAssignments :
              /\ PairsOf(f) = ReturnedPairs
              /\ \A g \in ValidAssignments : ValueOf(g) <= ValueOf(f)
    /\ (pc = "done" /\ status = "FEASIBLE") => (result = NoneValue /\ assignment = <<>>)

C4_Witness ==
    /\ Returned
    /\ \E f \in ValidAssignments :
          /\ PairsOf(f) = ReturnedPairs
          /\ \E g \in ValidAssignments : ValueOf(g) < ValueOf(f)
          /\ \E j \in Tasks : CampusScore(f[j], j) = 1

\* C5: when no assignment satisfies coverage, the quotas and the conflicts, the
\* function returns None and builds no assignment
C5_InfeasibleReturnsNone ==
    (pc = "done" /\ status # "unsolved" /\ ValidAssignments = {}) =>
        (result = NoneValue /\ assignment = <<>>)

C5_Witness ==
    /\ pc = "done"
    /\ status = "INFEASIBLE"
    /\ ValidAssignments = {}
    /\ num_supervisors = 2
    /\ \A j \in Tasks : \E i \in Supervisors : ~conflict_matrix[<<i, j>>]
    /\ result = NoneValue

\* C6: the result returned for an infeasible instance differs from the result
\* returned when the solver backend cannot be constructed
C6_InfeasibleDistinctFromUnavailable ==
    (pc = "done" /\ status = "INFEASIBLE") => result # UnavailableReturn

\* C7: with zero supervisors and at least one task no solver is created, no
\* constraint is added, Solve is not called and no assignment is returned
C7_RejectedBeforeSolver ==
    (num_supervisors = 0 /\ num_tasks >= 1) =>
        /\ solver = "none"
        /\ constraints = <<>>
        /\ solve_calls = 0
        /\ result.kind # "output"

\* the conflict-free total maps task -> supervisor whose counts per supervisor
\* differ by at most 1, whoever holds the larger count
NearBalancedAssignments ==
    IF num_supervisors = 0 THEN {}
    ELSE {f \in [Tasks -> Supervisors] :
            /\ \A i \in Supervisors : \A k \in Supervisors :
                  Cardinality({j \in Tasks : f[j] = i})
                      <= Cardinality({j \in Tasks : f[j] = k}) + 1
            /\ \A j \in Tasks : ~conflict_matrix[<<f[j], j>>]}

\* C17: once the solver has been created and the function has returned, it
\* returned an assignment exactly when some conflict-free total assignment gives
\* q + 1 tasks to each of the first r supervisors and q to the others; a
\* conflict-free assignment that is balanced only up to 1 is not enough
C17_ReturnsIffExactQuotas ==
    (pc = "done" /\ solver = "created") =>
        /\ Returned <=> ValidAssignments # {}
        /\ ~Returned => result = NoneValue

\* one task, two supervisors, supervisor 0 conflicts with the task: supervisor 1
\* could take it, the quotas give it to supervisor 0, nothing is returned
C17_Witness ==
    /\ pc = "done"
    /\ solver = "created"
    /\ num_supervisors = 2
    /\ num_tasks = 1
    /\ conflict_matrix[<<0, 0>>]
    /\ ~conflict_matrix[<<1, 0>>]
    /\ NearBalancedAssignments # {}
    /\ ValidAssignments = {}
    /\ result = NoneValue

(***************************************************************************)
(* TimeMatrix on its own: the schedules are given, build_conflict_matrix   *)
(* fills the two matrices cell by cell.                                    *)
(***************************************************************************)
Slot(day, periods, weeks) ==
    [teacher |-> <<"T">>, day |-> day, periods |-> periods, weeks |-> weeks,
     location |-> <<"L">>]

SupervisorSlots ==
    { Slot(1, {1, 2}, {1, 2}),
      Slot(1, {2, 3}, {2, 3}),
      Slot(2, {2}, {1, 2}),
      Slot(0, {2}, {2}),
      Slot(1, {}, {2}),
      Slot(1, {12}, {1, 2}) }

TaskSlots ==
    { Slot(1, {2}, {2}),
      Slot(1, {1, 2}, {1, 2}),
      Slot(2, {13}, {2}),
      Slot(0, {2}, {2}),
      Slot(1, {}, {2}),
      Slot(1, {13}, {}) }

\* a second supervisor and a second task, so that the matrices have two rows
\* and two columns
OtherSupervisor == <<Slot(2, {2}, {1, 2})>>
OtherTask == <<Slot(2, {2}, {2})>>

MatrixInputs ==
    {<<(<<a>>), (<<b>>)>> :
        a \in SeqsUpTo(SupervisorSlots, MaxSlots), b \in SeqsUpTo(TaskSlots, MaxSlots)}
    \cup
    {<<(<<OtherSupervisor, a>>), (<<b, OtherTask>>)>> :
        a \in SeqsUpTo(SupervisorSlots, MaxSlots), b \in SeqsUpTo(TaskSlots, MaxSlots)}

\* TimeMatrix.__init__
InitMatrix ==
    /\ pc = "matrix"
    /\ supervisor_course_data = <<>>
    /\ task_data = <<>>
    /\ \E in \in MatrixInputs :
          /\ all_schedule_list_supervisor = in[1]
          /\ all_schedule_list_task = in[2]
    /\ Fresh

\* lines 304-307: the two zero matrices
StartBuild ==
    /\ pc = "matrix"
    /\ LET cells == Cells(Len(all_schedule_list_supervisor), Len(all_schedule_list_task)) IN
       /\ conflict_matrix' = [ij \in cells |-> FALSE]
       /\ proximity_matrix' = [ij \in cells |-> 0]
    /\ cells_done' = 0
    /\ pc' = "cells"
    /\ UNCHANGED <<worker_pc, writers, supervisor_course_data, task_data, all_schedule_list_supervisor,
                   all_schedule_list_task, solver, x, constraints, objective,
                   solve_calls, status, solution, assignment, result, printed, exception>>

\* lines 308-315: one pass of the inner loop; after the last cell the matrices
\* are returned
BuildNextCell ==
    /\ pc = "cells"
    /\ LET order == RowMajor(Len(all_schedule_list_supervisor), Len(all_schedule_list_task))
           ij == order[cells_done + 1]
           c == BuildCell(all_schedule_list_supervisor, all_schedule_list_task, ij[1], ij[2])
       IN  /\ cells_done < Len(order)
           /\ IF c.kind = "ValueError"
              THEN /\ conflict_matrix' = [conflict_matrix EXCEPT ![ij] = FALSE]
                   /\ pc' = "raised"
                   /\ exception' = "ValueError"
                   /\ UNCHANGED <<proximity_matrix, cells_done>>
              ELSE /\ conflict_matrix' = [conflict_matrix EXCEPT ![ij] = c.conflict]
                   /\ proximity_matrix' = [proximity_matrix EXCEPT ![ij] = c.proximity]
                   /\ cells_done' = cells_done + 1
                   /\ pc' = IF cells_done + 1 = Len(order) THEN "built" ELSE "cells"
                   /\ UNCHANGED exception
    /\ UNCHANGED <<worker_pc, writers, supervisor_course_data, task_data, all_schedule_list_supervisor,
                   all_schedule_list_task, solver, x, constraints, objective,
                   solve_calls, status, solution, assignment, result, printed>>

NextMatrix == StartBuild \/ BuildNextCell

SpecMatrix == InitMatrix /\ [][NextMatrix]_vars

(***************************************************************************)
(* Properties of TimeMatrix                                                *)
(***************************************************************************)
\* the cells the loops have written: those completed, and the one that raised
WrittenCells ==
    LET order == RowMajor(Len(all_schedule_list_supervisor), Len(all_schedule_list_task)) IN
    IF pc \in {"cells", "built", "raised"}
    THEN {order[k] : k \in 1..(IF pc = "raised" THEN cells_done + 1 ELSE cells_done)}
    ELSE {}

\* the cells whose two values are both written
BuiltCells ==
    LET order == RowMajor(Len(all_schedule_list_supervisor), Len(all_schedule_list_task)) IN
    IF pc \in {"cells", "built", "raised"} THEN {order[k] : k \in 1..cells_done} ELSE {}

SlotsOf(schedule) == {schedule[k] : k \in 1..Len(schedule)}

\* some task slot lies on the day of a supervisor slot with its weeks and its
\* periods each a non-empty subset of that slot's
ContainedSomewhere(sup_schedule, task_schedule) ==
    \E t \in SlotsOf(task_schedule) : \E s \in SlotsOf(sup_schedule) :
        /\ t.day = s.day
        /\ t.weeks # {} /\ \A w \in t.weeks : w \in s.weeks
        /\ t.periods # {} /\ \A q \in t.periods : q \in s.periods

\* C8: schedules_conflict is true exactly when some task slot and some supervisor
\* slot share the day and the task slot's weeks and periods are non-empty subsets
\* of the supervisor slot's; partial overlap alone is not a conflict
C8_ConflictIffContained ==
    \A ij \in WrittenCells :
        conflict_matrix[ij] =
            ContainedSomewhere(all_schedule_list_supervisor[ij[1] + 1],
                               all_schedule_list_task[ij[2] + 1])

\* overlap without containment is not flagged, beside a cell that is contained
C8_Witness ==
    /\ pc = "built"
    /\ Len(all_schedule_list_supervisor) = 2
    /\ all_schedule_list_supervisor[2] = <<Slot(1, {2, 3}, {2, 3})>>
    /\ all_schedule_list_task[1] = <<Slot(1, {1, 2}, {1, 2})>>
    /\ ~conflict_matrix[<<1, 0>>]
    /\ conflict_matrix[<<0, 1>>]

Max(a, b) == IF a >= b THEN a ELSE b

\* the periods of the supervisor's slots on the given day
Occupied(sup_schedule, day) == UNION {s.periods : s \in {u \in SlotsOf(sup_schedule) : u.day = day}}

\* the least distance between a period of the task slot and an occupied period
LeastDistance(t, occupied) ==
    CHOOSE d \in {Abs(p - q) : p \in occupied, q \in t.periods} :
        \A p \in occupied : \A q \in t.periods : d <= Abs(p - q)

\* what task slot t adds: nothing when the supervisor occupies no period that day
Closeness(sup_schedule, t) ==
    LET occupied == Occupied(sup_schedule, t.day) IN
    IF occupied = {} THEN 0 ELSE Max(0, 10 - LeastDistance(t, occupied))

ClosenessSum(sup_schedule, task_schedule) ==
    SumOver([k \in 1..Len(task_schedule) |-> Closeness(sup_schedule, task_schedule[k])],
            1..Len(task_schedule))

\* C9: a built cell's proximity is 100 when the cell conflicts, and otherwise the
\* sum over the task's slots of max(0, 10 - least period distance to a period the
\* supervisor occupies that weekday), 0 for a slot on a day without one; so it is
\* never negative
C9_ProximityCells ==
    \A ij \in BuiltCells :
        /\ proximity_matrix[ij] >= 0
        /\ proximity_matrix[ij] =
              IF conflict_matrix[ij] THEN 100
              ELSE ClosenessSum(all_schedule_list_supervisor[ij[1] + 1],
                                all_schedule_list_task[ij[2] + 1])

\* a cell that sums two task slots beside a conflicting cell, in one matrix
C9_Witness ==
    /\ pc = "built"
    /\ Len(all_schedule_list_supervisor) = 2
    /\ all_schedule_list_supervisor[2] = <<Slot(1, {12}, {1, 2}), Slot(1, {2, 3}, {2, 3})>>
    /\ all_schedule_list_task[1] = <<Slot(1, {13}, {}), Slot(1, {1, 2}, {1, 2})>>
    /\ ~conflict_matrix[<<1, 0>>]
    /\ proximity_matrix[<<1, 0>>] = 19
    /\ conflict_matrix[<<0, 1>>]
    /\ proximity_matrix[<<0, 1>>] = 100
    /\ proximity_matrix[<<0, 0>>] = 0

\* the slots of a schedule whose weekday was recognised
KnownDays(schedule) == SelectSeq(schedule, LAMBDA c : c.day # 0)

\* C12: a slot with day 0 (weekday literal not one of the 7 names) is inert: it
\* matches the day of no slot of the other side, a day-0 slot included, so every
\* built cell has the conflict flag and the proximity that the schedules without
\* their day-0 slots give
C12_UnknownDayInert ==
    \A ij \in BuiltCells :
        LET sup == KnownDays(all_schedule_list_supervisor[ij[1] + 1])
            task == KnownDays(all_schedule_list_task[ij[2] + 1])
        IN  /\ conflict_matrix[ij] = ContainedSomewhere(sup, task)
            /\ proximity_matrix[ij] =
                  IF ContainedSomewhere(sup, task) THEN 100 ELSE ClosenessSum(sup, task)

(***************************************************************************)
(* TimeParser on its own: one column of schedule strings is parsed.  The   *)
(* strings are made of brace-groups with a known list of bracket fields    *)
(* and of text that lies between groups.                                   *)
(***************************************************************************)
\* "[f1],[f2],...": the bracket fields joined by commas
RECURSIVE Brackets(_)
Brackets(fields) ==
    IF fields = <<>> THEN <<>>
    ELSE (<<"[">> \o Head(fields) \o <<"]">>)
         \o (IF Tail(fields) = <<>> THEN <<>> ELSE <<",">> \o Brackets(Tail(fields)))

Group(fields) == [group |-> TRUE, fields |-> fields, text |-> <<"{">> \o Brackets(fields) \o <<"}">>]

Between(text) == [group |-> FALSE, fields |-> <<>>, text |-> text]

Pieces ==
    { Group(<<>>),
      Group(<< <<"A">>, <<"Mon">>, <<"P", "0", "1", "J">> >>),
      Group(<< <<"B">>, <<"Mon">>, <<"P", "0", "1", "J">>, <<"1", "W">> >>),
      Group(<< <<"C">>, <<"Mon">>, <<"P", "0", "1", ",", "0", "2", "J">>, <<"5", "W">>, <<"L">> >>),
      Group(<< <<"D">>, <<"Tue">>, <<"P", "6", "-", "9", "J">>,
               <<"1", "-", "5", ",", "8", "-", "1", "8", "W">>, <<"M">> >>),
      Group(<< <<"E">>, <<"Xday">>, <<"P", "0", "3", "J">>, <<"2", "W">>, <<"L">>, <<"x">> >>),
      Group(<< <<"F", "[", "x", "]">>, <<"Wed">>, <<"P", "1", "J">>, <<"1", "W">>, <<"L">> >>),
      Group(<< <<"G">>, <<"Mon">>, <<"P", "J">>, <<"5", "W">>, <<"L">> >>),
      Group(<< <<"H">>, <<"Mon">>, <<"P", "1", "J">>, <<"3", "-", "W">> >>),
      Group(<< <<"K">>, <<"Mon">>, <<"P", "1", "J">>, <<"x", "W">>, <<"L">> >>),
      Group(<< <<"N">>, <<"Mon">>, <<"P", "1", "-", "2", "-", "3", "J">>, <<"1", "W">>, <<"L">> >>),
      Between(<<",">>),
      Between(<<"[", "I", "]", ",", "[", "Mon", "]", ",", "[", "P", "1", "J", "]", ",",
                "[", "1", "W", "]", ",", "[", "L", "]">>) }

TextOf(ps) == Flatten([k \in 1..Len(ps) |-> ps[k].text])

PieceSeqs == SeqsUpTo(Pieces, MaxGroups)

NotAString == [campus |-> <<"a">>, isstr |-> FALSE, text |-> <<>>]

\* one-row and two-row columns; a cell is a string or a missing value
ParseInputs ==
    {<<Row(<<"a">>, TextOf(ps))>> : ps \in PieceSeqs}
    \cup {<<NotAString, Row(<<"a">>, TextOf(ps))>> : ps \in PieceSeqs}
    \cup {<<NotAString>>}

InitParse ==
    /\ pc = "start"
    /\ supervisor_course_data = <<>>
    /\ task_data \in ParseInputs
    /\ all_schedule_list_supervisor = <<>>
    /\ all_schedule_list_task = <<>>
    /\ Fresh

NextParse == ParseSchedules

SpecParse == InitParse /\ [][NextParse]_vars

(***************************************************************************)
(* Properties of TimeParser                                                *)
(***************************************************************************)
Parsed == pc = "create_solver"

\* the groups of a piece sequence that have at least 5 bracket fields, in order
LongGroups(ps) == SelectSeq(ps, LAMBDA q : q.group /\ Len(q.fields) >= 5)

TeachersOf(schedule) == [k \in 1..Len(schedule) |-> schedule[k].teacher]

\* C10: the schedule parse_schedules gives an entity has one slot for each
\* brace-group with at least 5 bracket fields, in source order; a group with
\* fewer fields adds no slot and raises nothing; a cell that is no string gives
\* the empty schedule
C10_SlotPerLongGroup ==
    /\ Parsed =>
          /\ Len(all_schedule_list_task) = Len(task_data)
          /\ \A e \in 1..Len(task_data) :
                IF task_data[e].isstr
                THEN \A ps \in PieceSeqs :
                        TextOf(ps) = task_data[e].text =>
                            TeachersOf(all_schedule_list_task[e])
                                = [k \in 1..Len(LongGroups(ps)) |-> LongGroups(ps)[k].fields[1]]
                ELSE all_schedule_list_task[e] = <<>>
    /\ pc = "raised" =>
          \E e \in 1..Len(task_data) :
              /\ task_data[e].isstr
              /\ \A ps \in PieceSeqs :
                    TextOf(ps) = task_data[e].text => LongGroups(ps) # <<>>

\* a missing cell, then a string with a short group between two long ones
C10_Witness ==
    /\ Parsed
    /\ Len(task_data) = 2
    /\ ~task_data[1].isstr
    /\ all_schedule_list_task[1] = <<>>
    /\ \E ps \in PieceSeqs :
          /\ TextOf(ps) = task_data[2].text
          /\ \E k \in 1..Len(ps) : ps[k].group /\ Len(ps[k].fields) < 5
          /\ LongGroups(ps) # <<>>
    /\ Len(all_schedule_list_task[2]) = 1

\* C11: parse_schedules completes without an exception on every column, also
\* one with a brace-group of 5 or more bracket fields whose period spec or week
\* spec is empty, non-numeric or an ill-formed range: the slot is left out
C11_MalformedEntryOmitted ==
    pc # "start" => /\ exception = "none"
                    /\ Parsed
                    /\ Len(all_schedule_list_task) = Len(task_data)

(***************************************************************************)
(* TimeParser on brace-groups written from known values: a weekday, a list *)
(* of period items and a list of week items, each item one number or a     *)
(* start-end range, are written in the format of the docstrings and the    *)
(* column of one such cell is parsed.                                      *)
(***************************************************************************)
DigitChar(d) ==
    CASE d = 0 -> "0" [] d = 1 -> "1" [] d = 2 -> "2" [] d = 3 -> "3"
      [] d = 4 -> "4" [] d = 5 -> "5" [] d = 6 -> "6" [] d = 7 -> "7"
      [] d = 8 -> "8" [] d = 9 -> "9"

RECURSIVE Decimal(_)
Decimal(n) == IF n < 10 THEN <<DigitChar(n)>> ELSE Decimal(n \div 10) \o <<DigitChar(n % 10)>>

\* the number in decimal, with a leading zero when two digits are asked for
Padded(n, width) == IF width = 2 /\ n < 10 THEN <<"0">> \o Decimal(n) ELSE Decimal(n)

One(n) == [range |-> FALSE, lo |-> n, hi |-> n]
Range(a, b) == [range |-> TRUE, lo |-> a, hi |-> b]

ItemText(it, width) ==
    IF it.range THEN Padded(it.lo, width) \o <<"-">> \o Padded(it.hi, width)
    ELSE Padded(it.lo, width)

RECURSIVE ItemsText(_, _)
ItemsText(items, width) ==
    IF Len(items) = 1 THEN ItemText(items[1], width)
    ELSE ItemText(Head(items), width) \o <<",">> \o ItemsText(Tail(items), width)

WeekdayNames == <<"Mon", "Tue", "Wed", "Thu", "Fri", "Sat", "Sun">>

PeriodItems ==
    { <<One(1), One(2)>>, <<Range(6, 9)>>, <<One(3), Range(6, 9)>>, <<One(11)>> }

WeekItems ==
    { <<One(5)>>, <<Range(1, 5), Range(8, 18)>>, <<Range(1, 2), One(2)>> }

EncodedEntries ==
    [teacher : {<<"T">>}, day : 1..7, periods : PeriodItems, width : {1, 2},
     weeks : WeekItems, location : {<<"L">>, <<"S", "-", "7", "0", "5">>}]

\* "{[T],[weekday],[P..J],[..W],[location]}" for the values of w
EntryText(w) ==
    Entry(w.teacher, WeekdayNames[w.day],
          <<"P">> \o ItemsText(w.periods, w.width) \o <<"J">>,
          ItemsText(w.weeks, 1) \o <<"W">>, w.location)

\* a brace-group whose period spec is the text start=1,end=2
StartEndEntry ==
    Entry(<<"T">>, "Mon",
          <<"s", "t", "a", "r", "t", "=", "1", ",", "e", "n", "d", "=", "2">>,
          <<"5", "W">>, <<"L">>)

RoundTripInputs ==
    {<<Row(<<"a">>, EntryText(w))>> : w \in EncodedEntries}
    \cup {<<Row(<<"a">>, StartEndEntry)>>}

InitRoundTrip ==
    /\ pc = "start"
    /\ supervisor_course_data = <<>>
    /\ task_data \in RoundTripInputs
    /\ all_schedule_list_supervisor = <<>>
    /\ all_schedule_list_task = <<>>
    /\ Fresh

NextRoundTrip == ParseSchedules

SpecRoundTrip == InitRoundTrip /\ [][NextRoundTrip]_vars

(***************************************************************************)
(* Properties of the round trip                                            *)
(***************************************************************************)
\* the union of the numbers and inclusive ranges the items name
Named(items) == UNION {items[k].lo .. items[k].hi : k \in 1..Len(items)}

\* the slot the values of w stand for
SlotFor(w) ==
    [teacher |-> w.teacher, day |-> w.day, periods |-> Named(w.periods),
     weeks |-> Named(w.weeks), location |-> w.location]

\* the slots the cell's text stands for when its markers are P..J and ..W
EncodedSlots(text) == {SlotFor(w) : w \in {v \in EncodedEntries : EntryText(v) = text}}

\* start=1,end=2 read as the periods 1 and 2
StartEndSlots(text) ==
    IF text = StartEndEntry
    THEN {[teacher |-> <<"T">>, day |-> 1, periods |-> {1, 2}, weeks |-> {5},
           location |-> <<"L">>]}
    ELSE {}

\* C13 as stated: every well-formed brace-group is parsed to the weekday 1..7,
\* the union of the numbers and ranges of its period spec and of its week spec,
\* and the fifth field as location, the period spec start=1,end=2 giving {1,2}
C13_RecoversEncodedAsStated ==
    pc # "start" =>
        \A slot \in EncodedSlots(task_data[1].text) \cup StartEndSlots(task_data[1].text) :
            Parsed /\ all_schedule_list_task = << <<slot>> >>

\* C13: a brace-group whose period spec is P<items>J and whose week spec is
\* <items>W, the items decimal numbers or start-end ranges, is parsed to the
\* weekday 1..7 of its name, the union of the numbers and inclusive ranges of the
\* period items, the same union of the week items, and the fifth field as
\* location
C13_RecoversEncoded ==
    pc # "start" =>
        /\ EncodedSlots(task_data[1].text) # {} => Parsed
        /\ \A slot \in EncodedSlots(task_data[1].text) :
              all_schedule_list_task = << <<slot>> >>

\* Tuesday, periods 6-9, weeks 1-5,8-18 recovered
C13_Witness ==
    /\ Parsed
    /\ \E w \in EncodedEntries :
          /\ task_data[1].text = EntryText(w)
          /\ w.periods = <<Range(6, 9)>>
          /\ w.weeks = <<Range(1, 5), Range(8, 18)>>
          /\ w.day = 2
    /\ all_schedule_list_task[1][1].day = 2
    /\ all_schedule_list_task[1][1].periods = {6, 7, 8, 9}
    /\ all_schedule_list_task[1][1].weeks = (1..5) \cup (8..18)
    /\ all_schedule_list_task[1][1].location = <<"S", "-", "7", "0", "5">>

(***************************************************************************)
(* TimeMatrix on schedules of one slot each: one supervisor against two    *)
(* tasks at every period distance, and two supervisors against two tasks   *)
(* whose slots differ in weeks, teacher and location.                      *)
(***************************************************************************)
SlotWith(teacher, day, periods, weeks, location) ==
    [teacher |-> teacher, day |-> day, periods |-> periods, weeks |-> weeks,
     location |-> location]

\* Monday slots of one period each, weeks inside or across the supervisor's
DistanceTaskSlots == {Slot(1, {p}, w) : p \in 1..MaxPeriod, w \in {{1}, {2, 3}}}

DistanceSupervisorSlots == {Slot(1, {2}, {1, 2}), Slot(1, {1, 2}, {1, 2})}

DistanceInputs ==
    {<<(<< <<s>> >>), (<< <<t1>>, <<t2>> >>)>> :
        s \in DistanceSupervisorSlots, t1 \in DistanceTaskSlots, t2 \in DistanceTaskSlots}

Labels == {<< <<"T">>, <<"L">> >>, << <<"V">>, <<"M">> >>}

FieldSupervisorSlots ==
    {SlotWith(l[1], 1, {2}, w, l[2]) : l \in Labels, w \in {{1, 2}, {4}}}

FieldTaskSlots ==
    {SlotWith(l[1], 1, q, w, l[2]) : l \in Labels, q \in {{2}, {5}}, w \in {{1}, {2, 3}, {7}}}

FieldInputs ==
    {<<(<< <<s1>>, <<s2>> >>), (<< <<t1>>, <<t2>> >>)>> :
        s1 \in FieldSupervisorSlots, s2 \in FieldSupervisorSlots,
        t1 \in FieldTaskSlots, t2 \in FieldTaskSlots}

PairInputs == DistanceInputs \cup FieldInputs

InitPairs ==
    /\ pc = "matrix"
    /\ supervisor_course_data = <<>>
    /\ task_data = <<>>
    /\ \E in \in PairInputs :
          /\ all_schedule_list_supervisor = in[1]
          /\ all_schedule_list_task = in[2]
    /\ Fresh

NextPairs == StartBuild \/ BuildNextCell

SpecPairs == InitPairs /\ [][NextPairs]_vars

(***************************************************************************)
(* Properties of single-slot pairs                                         *)
(***************************************************************************)
\* the cell's supervisor and task have one slot each, on the same weekday
SingleSlots(ij) ==
    /\ Len(all_schedule_list_supervisor[ij[1] + 1]) = 1
    /\ Len(all_schedule_list_task[ij[2] + 1]) = 1
    /\ all_schedule_list_supervisor[ij[1] + 1][1].day = all_schedule_list_task[ij[2] + 1][1].day

SupSlot(ij) == all_schedule_list_supervisor[ij[1] + 1][1]
TaskSlot(ij) == all_schedule_list_task[ij[2] + 1][1]

\* the least distance between a period of the task slot and one of the
\* supervisor slot
PeriodDistance(ij) == LeastDistance(TaskSlot(ij), SupSlot(ij).periods)

\* a built, non-conflicting cell of single slots on one weekday whose weeks
\* overlap
NearPair(ij) ==
    /\ ij \in BuiltCells
    /\ SingleSlots(ij)
    /\ ~conflict_matrix[ij]
    /\ \E w \in TaskSlot(ij).weeks : w \in SupSlot(ij).weeks

\* C14: among non-conflicting pairs of one task slot and one supervisor slot on
\* the same weekday with overlapping weeks, against the same supervisor, the pair
\* at the larger period distance has the strictly smaller proximity as long as
\* the smaller distance is below 10, and the proximity is 0 at every distance of
\* 10 or more
C14_ProximityDecreases ==
    \A ij \in BuiltCells : \A kl \in BuiltCells :
        (NearPair(ij) /\ NearPair(kl) /\ ij[1] = kl[1]) =>
            /\ (PeriodDistance(ij) < PeriodDistance(kl) /\ PeriodDistance(ij) < 10)
                  => proximity_matrix[ij] > proximity_matrix[kl]
            /\ PeriodDistance(ij) >= 10 => proximity_matrix[ij] = 0

\* distances 9 and 10 side by side: 1 and 0
C14_Witness ==
    /\ pc = "built"
    /\ NearPair(<<0, 0>>) /\ NearPair(<<0, 1>>)
    /\ PeriodDistance(<<0, 0>>) = 9 /\ PeriodDistance(<<0, 1>>) = 10
    /\ proximity_matrix[<<0, 0>>] = 1
    /\ proximity_matrix[<<0, 1>>] = 0

\* two schedules with the same days and periods slot by slot, whatever their
\* weeks, teachers and locations
SameTimes(a, b) ==
    /\ Len(a) = Len(b)
    /\ \A k \in 1..Len(a) : a[k].day = b[k].day /\ a[k].periods = b[k].periods

\* C18: two non-conflicting pairs whose supervisor schedules and whose task
\* schedules differ only in weeks, teacher and location have the same proximity
C18_ProximityIgnoresWeeks ==
    \A ij \in BuiltCells : \A kl \in BuiltCells :
        ( /\ ~conflict_matrix[ij] /\ ~conflict_matrix[kl]
          /\ SameTimes(all_schedule_list_supervisor[ij[1] + 1],
                       all_schedule_list_supervisor[kl[1] + 1])
          /\ SameTimes(all_schedule_list_task[ij[2] + 1], all_schedule_list_task[kl[2] + 1]) )
        => proximity_matrix[ij] = proximity_matrix[kl]

\* a supervisor slot whose weeks are disjoint from the task slot's contributes
\* what the slot with overlapping weeks, another teacher and another location
\* contributes
C18_Witness ==
    /\ pc = "built"
    /\ Len(all_schedule_list_supervisor) = 2
    /\ SupSlot(<<0, 0>>) = SlotWith(<<"T">>, 1, {2}, {4}, <<"L">>)
    /\ TaskSlot(<<0, 0>>) = SlotWith(<<"T">>, 1, {5}, {1}, <<"L">>)
    /\ SupSlot(<<1, 1>>) = SlotWith(<<"V">>, 1, {2}, {1, 2}, <<"M">>)
    /\ TaskSlot(<<1, 1>>) = SlotWith(<<"V">>, 1, {5}, {2, 3}, <<"M">>)
    /\ ~conflict_matrix[<<0, 0>>] /\ ~conflict_matrix[<<1, 1>>]
    /\ proximity_matrix[<<0, 0>>] = 7
    /\ proximity_matrix[<<1, 1>>] = 7

(***************************************************************************)
(* matching_task on the instance of two supervisors and four tasks without *)
(* conflicts: supervisor 0 teaches on the campus of tasks 0 and 1,         *)
(* supervisor 1 on the campus of tasks 2 and 3, both supervisors have the  *)
(* same schedule and all tasks have the same schedule.                     *)
(***************************************************************************)
\* on SupBusy's Monday, three periods away
TaskClose == Row(<<"b">>, Entry(<<"U">>, "Mon", <<"P", "0", "5", "J">>, <<"1", "W">>, <<"L">>))

ExampleSupervisorTexts == {SupBusy.text, SupFree.text}

ExampleTaskTexts == {TaskNear.text, TaskOther.text, TaskClose.text}

ExampleInputs ==
    {<<(<<Row(ca, s), Row(<<"b">>, s)>>),
       (<<Row(<<"a">>, t), Row(<<"a">>, t), Row(<<"b">>, t), Row(<<"b">>, t)>>)>> :
        ca \in {<<"a">>, <<"c", ",", "a">>}, s \in ExampleSupervisorTexts,
        t \in ExampleTaskTexts}

InitExample ==
    /\ pc = "start"
    /\ \E in \in ExampleInputs :
          /\ supervisor_course_data = in[1]
          /\ task_data = in[2]
    /\ all_schedule_list_supervisor = <<>>
    /\ all_schedule_list_task = <<>>
    /\ Fresh

SpecExample == InitExample /\ [][Next]_vars

(***************************************************************************)
(* Properties of the example                                               *)
(***************************************************************************)
\* no cell conflicts and every cell has the same proximity
ExampleShape ==
    /\ \A ij \in x : ~conflict_matrix[ij]
    /\ \A ij \in x : \A kl \in x : proximity_matrix[ij] = proximity_matrix[kl]

\* the proximity the chosen pairs add to the objective
ProximityOfReturned == SumOver([ij \in ReturnedPairs |-> proximity_matrix[ij]], ReturnedPairs)

ExampleRouting ==
    /\ ExampleShape
    /\ ReturnedPairs = {<<0, 0>>, <<0, 1>>, <<1, 2>>, <<1, 3>>}
    /\ Len(result.assignment) = 4
    /\ Cardinality(TasksOf(0)) = 2
    /\ Cardinality(TasksOf(1)) = 2

\* C15 as stated: on the example the returned assignment gives tasks 0,1 to
\* supervisor 0 and tasks 2,3 to supervisor 1, two tasks each, and the objective
\* value is 2 plus the proximity of the chosen pairs
C15_ExampleAsStated ==
    Returned =>
        /\ ExampleRouting
        /\ ObjectiveValue(solution) = 2 + ProximityOfReturned

\* C15: on the example the returned assignment gives tasks 0,1 to supervisor 0
\* and tasks 2,3 to supervisor 1, two tasks each, and the objective value is 4,
\* one for each of the four campus matches, plus the proximity of the chosen pairs
C15_Example ==
    Returned =>
        /\ ExampleRouting
        /\ ObjectiveValue(solution) = 4 + ProximityOfReturned

\* the example with a proximity of 7 in every cell: 4 + 4 * 7
C15_Witness ==
    /\ Returned
    /\ supervisor_course_data[1].campus = <<"c", ",", "a">>
    /\ proximity_matrix[<<0, 0>>] = 7
    /\ result.assignment = <<(<<0, 0>>), (<<0, 1>>), (<<1, 2>>), (<<1, 3>>)>>
    /\ ObjectiveValue(solution) = 32

(***************************************************************************)
(* build_conflict_matrix with the loop body of lines 310-314 run by one    *)
(* worker per cell, the workers interleaved in any order: a worker writes  *)
(* the conflict flag of its cell, then reads it back and writes the        *)
(* proximity.                                                              *)
(***************************************************************************)
\* every worker of a row writing column 0
CellOfFirstColumn(i, j) == <<i, 0>>

\* the cell [i][j] that the body of the loops writes and reads
CellOf(i, j) == <<i, j>>

WorkerSupervisorSchedules ==
    { <<Slot(1, {1, 2}, {1, 2})>>,
      <<Slot(2, {2}, {1, 2}), Slot(1, {12}, {1, 2})>>,
      <<>> }

WorkerTaskSchedules ==
    { <<Slot(1, {2}, {2})>>,
      <<Slot(1, {13}, {}), Slot(2, {13}, {2})>>,
      <<Slot(1, {}, {2})>> }

WorkerInputs ==
    {<<(<<s1, s2>>), (<<t1, t2>>)>> :
        s1 \in WorkerSupervisorSchedules, s2 \in WorkerSupervisorSchedules,
        t1 \in WorkerTaskSchedules, t2 \in WorkerTaskSchedules}

InitWorkers ==
    /\ pc = "matrix"
    /\ supervisor_course_data = <<>>
    /\ task_data = <<>>
    /\ \E in \in WorkerInputs :
          /\ all_schedule_list_supervisor = in[1]
          /\ all_schedule_list_task = in[2]
    /\ Fresh

\* lines 304-307, then one worker per cell
StartWorkers ==
    /\ pc = "matrix"
    /\ LET cells == Cells(Len(all_schedule_list_supervisor), Len(all_schedule_list_task)) IN
       /\ conflict_matrix' = [ij \in cells |-> FALSE]
       /\ proximity_matrix' = [ij \in cells |-> 0]
       /\ worker_pc' = [ij \in cells |-> "conflict"]
       /\ writers' = [ij \in cells |-> {}]
    /\ pc' = "cells"
    /\ UNCHANGED <<cells_done, supervisor_course_data, task_data, all_schedule_list_supervisor,
                   all_schedule_list_task, solver, x, constraints, objective,
                   solve_calls, status, solution, assignment, result, printed, exception>>

\* line 310 by the worker of cell (i, j)
WriteConflict(i, j) ==
    /\ pc = "cells"
    /\ worker_pc[<<i, j>>] = "conflict"
    /\ conflict_matrix' =
          [conflict_matrix EXCEPT ![CellOf(i, j)] =
              schedules_conflict(all_schedule_list_supervisor[i + 1],
                                 all_schedule_list_task[j + 1])]
    /\ writers' = [writers EXCEPT ![CellOf(i, j)] = @ \cup {<<i, j>>}]
    /\ worker_pc' = [worker_pc EXCEPT ![<<i, j>>] = "proximity"]
    /\ UNCHANGED <<pc, cells_done, supervisor_course_data, task_data,
                   all_schedule_list_supervisor, all_schedule_list_task, proximity_matrix,
                   solver, x, constraints, objective, solve_calls, status, solution,
                   assignment, result, printed, exception>>

\* lines 311-314 by the worker of cell (i, j)
WriteProximity(i, j) ==
    /\ pc = "cells"
    /\ worker_pc[<<i, j>>] = "proximity"
    /\ LET r == calculate_time_proximity(all_schedule_list_supervisor[i + 1],
                                         all_schedule_list_task[j + 1])
       IN  IF conflict_matrix[CellOf(i, j)]
           THEN /\ proximity_matrix' = [proximity_matrix EXCEPT ![CellOf(i, j)] = ConflictPenalty]
                /\ worker_pc' = [worker_pc EXCEPT ![<<i, j>>] = "done"]
                /\ UNCHANGED exception
           ELSE IF r.kind = "ValueError"
           THEN /\ worker_pc' = [worker_pc EXCEPT ![<<i, j>>] = "raised"]
                /\ exception' = "ValueError"
                /\ UNCHANGED proximity_matrix
           ELSE /\ proximity_matrix' = [proximity_matrix EXCEPT ![CellOf(i, j)] = r.val]
                /\ worker_pc' = [worker_pc EXCEPT ![<<i, j>>] = "done"]
                /\ UNCHANGED exception
    /\ UNCHANGED <<pc, cells_done, writers, supervisor_course_data, task_data,
                   all_schedule_list_supervisor, all_schedule_list_task, conflict_matrix,
                   solver, x, constraints, objective, solve_calls, status, solution,
                   assignment, result, printed>>

\* line 315 once every worker has ended: the matrices, or the exception of a worker
JoinWorkers ==
    /\ pc = "cells"
    /\ \A ij \in DOMAIN worker_pc : worker_pc[ij] \in {"done", "raised"}
    /\ pc' = IF \E ij \in DOMAIN worker_pc : worker_pc[ij] = "raised" THEN "raised" ELSE "built"
    /\ UNCHANGED <<worker_pc, writers, cells_done, supervisor_course_data, task_data,
                   all_schedule_list_supervisor, all_schedule_list_task, conflict_matrix,
                   proximity_matrix, solver, x, constraints, objective, solve_calls,
                   status, solution, assignment, result, printed, exception>>

NextWorkers ==
    \/ StartWorkers
    \/ \E ij \in DOMAIN worker_pc : WriteConflict(ij[1], ij[2])
    \/ \E ij \in DOMAIN worker_pc : WriteProximity(ij[1], ij[2])
    \/ JoinWorkers

SpecWorkers == InitWorkers /\ [][NextWorkers]_vars

\* the two nested loops of lines 308-314 from the k-th cell on, in row-major
\* order, on the matrices m
RECURSIVE SequentialBuild(_, _, _, _)
SequentialBuild(sup_list, task_list, k, m) ==
    LET order == RowMajor(Len(sup_list), Len(task_list)) IN
    IF k > Len(order) THEN m
    ELSE LET ij == order[k]
             conflict == [m.conflict EXCEPT ![ij] =
                             schedules_conflict(sup_list[ij[1] + 1], task_list[ij[2] + 1])]
             r == calculate_time_proximity(sup_list[ij[1] + 1], task_list[ij[2] + 1])
         IN  IF conflict[ij]
             THEN SequentialBuild(sup_list, task_list, k + 1,
                      [m EXCEPT !.conflict = conflict,
                                !.proximity = [m.proximity EXCEPT ![ij] = ConflictPenalty]])
             ELSE IF r.kind = "ValueError" THEN ValueError
             ELSE SequentialBuild(sup_list, task_list, k + 1,
                      [m EXCEPT !.conflict = conflict,
                                !.proximity = [m.proximity EXCEPT ![ij] = r.val]])

\* what the sequential build returns for the schedules of the state
RowMajorResult ==
    LET cells == Cells(Len(all_schedule_list_supervisor), Len(all_schedule_list_task)) IN
    SequentialBuild(all_schedule_list_supervisor, all_schedule_list_task, 1,
                    [kind |-> "matrices", conflict |-> [ij \in cells |-> FALSE],
                     proximity |-> [ij \in cells |-> 0]])

(***************************************************************************)
(* Properties of the interleaved build                                     *)
(***************************************************************************)
\* C16: whatever the order and interleaving of the per-cell workers, the two
\* matrices they leave are those of the sequential row-major build (and they end
\* in its ValueError when it raises), a finished worker's cell already holds its
\* final values, and no cell is written by a worker other than its own
C16_AnyOrderSameMatrices ==
    /\ pc = "built" =>
          /\ RowMajorResult.kind = "matrices"
          /\ conflict_matrix = RowMajorResult.conflict
          /\ proximity_matrix = RowMajorResult.proximity
    /\ pc = "raised" => RowMajorResult.kind = "ValueError"
    /\ pc = "cells" =>
          \A ij \in DOMAIN worker_pc :
              (worker_pc[ij] = "done" /\ RowMajorResult.kind = "matrices") =>
                  /\ conflict_matrix[ij] = RowMajorResult.conflict[ij]
                  /\ proximity_matrix[ij] = RowMajorResult.proximity[ij]
    /\ \A ij \in DOMAIN writers : writers[ij] \subseteq {ij}

\* the last cell's worker ends before the first cell's has written its
\* proximity; in the end a conflicting and a non-conflicting cell are built
C16_Witness ==
    /\ pc = "cells"
    /\ worker_pc[<<1, 1>>] = "done"
    /\ worker_pc[<<0, 0>>] = "proximity"
    /\ worker_pc[<<0, 1>>] = "conflict"
    /\ conflict_matrix[<<0, 0>>]
    /\ proximity_matrix[<<0, 0>>] = 0
    /\ proximity_matrix[<<1, 1>>] = 9
    /\ RowMajorResult.kind = "matrices"
    /\ RowMajorResult.proximity[<<0, 0>>] = 100

====
